---- MODULE Spec2Model ----
(***************************************************************************)
(* A model of the DVSPortal client (dvsportal/dvsportal.py): the request   *)
(* primitive _request(), the token cache, the permit snapshot and the      *)
(* session ownership of class DVSPortal.                                   *)
(*                                                                         *)
(* Strings the code inspects character by character (content types,        *)
(* tokens, license plates, header values) are sequences of code points.    *)
(* Strings the code only passes around are TLA+ strings.                   *)
(***************************************************************************)
EXTENDS Integers, Sequences, FiniteSets, TLC

(***************************************************************************)
(* Bounds of the model.                                                    *)
(***************************************************************************)
NumTasks == 2
MaxOps == 3
MaxTimeout == 1
MaxStall == 1

MaxPlateLen == 2
MaxPlates == 3
MaxLists == 2
MaxMedias == 2

Tasks == 1..NumTasks
MainTask == 1

(***************************************************************************)
(* Text helpers.                                                           *)
(***************************************************************************)
\* str.startswith(prefix)
StartsWith(s, prefix) ==
    /\ Len(s) >= Len(prefix)
    /\ SubSeq(s, 1, Len(prefix)) = prefix

\* "application/json"
APPLICATION_JSON == <<97, 112, 112, 108, 105, 99, 97, 116, 105, 111, 110, 47, 106, 115, 111, 110>>
\* "application/json; charset=utf-8"
APPLICATION_JSON_UTF8 == <<97, 112, 112, 108, 105, 99, 97, 116, 105, 111, 110, 47, 106, 115, 111, 110, 59, 32, 99, 104, 97, 114, 115, 101, 116, 61, 117, 116, 102, 45, 56>>
\* "text/html"
TEXT_HTML == <<116, 101, 120, 116, 47, 104, 116, 109, 108>>
\* "Token "
TOKEN_PREFIX == <<84, 111, 107, 101, 110, 32>>

\* str.encode("utf-8") for code points below U+0800
RECURSIVE Utf8Encode(_)
Utf8Encode(s) ==
    IF s = <<>> THEN <<>>
    ELSE LET c == Head(s) IN
         (IF c < 128 THEN <<c>>
          ELSE <<192 + (c \div 64), 128 + (c % 64)>>) \o Utf8Encode(Tail(s))

\* The base64 alphabet: A-Z, a-z, 0-9, '+', '/'
B64Char(i) ==
    IF i < 26 THEN 65 + i
    ELSE IF i < 52 THEN 97 + (i - 26)
    ELSE IF i < 62 THEN 48 + (i - 52)
    ELSE IF i = 62 THEN 43
    ELSE 47

B64Pad == 61

\* base64.b64encode(bytes), decoded to text
RECURSIVE B64Encode(_)
B64Encode(b) ==
    IF Len(b) = 0 THEN <<>>
    ELSE IF Len(b) = 1 THEN
        <<B64Char(b[1] \div 4), B64Char((b[1] % 4) * 16), B64Pad, B64Pad>>
    ELSE IF Len(b) = 2 THEN
        <<B64Char(b[1] \div 4),
          B64Char((b[1] % 4) * 16 + (b[2] \div 16)),
          B64Char((b[2] % 16) * 4),
          B64Pad>>
    ELSE
        <<B64Char(b[1] \div 4),
          B64Char((b[1] % 4) * 16 + (b[2] \div 16)),
          B64Char((b[2] % 16) * 4 + (b[3] \div 64)),
          B64Char(b[3] % 64)>> \o B64Encode(SubSeq(b, 4, Len(b)))

\* [a-zA-Z\d] of a str pattern: ASCII letters and every Unicode decimal
\* digit (the ASCII digits and, of the others, the Arabic-Indic block).
IsPlateChar(c) ==
    \/ (c >= 97 /\ c <= 122)
    \/ (c >= 65 /\ c <= 90)
    \/ (c >= 48 /\ c <= 57)
    \/ (c >= 1632 /\ c <= 1641)

\* re.sub('[^a-zA-Z\d]', '', value)
RECURSIVE NormalizePlate(_)
NormalizePlate(s) ==
    IF s = <<>> THEN <<>>
    ELSE (IF IsPlateChar(Head(s)) THEN <<Head(s)>> ELSE <<>>)
         \o NormalizePlate(Tail(s))

(***************************************************************************)
(* The wire: response bodies the server may send, as raw text, and what    *)
(* json parsing makes of each.                                             *)
(***************************************************************************)
\* "abc"
TOKEN_ABC == <<97, 98, 99>>
\* "e-acute"
TOKEN_E == <<233>>
\* "AB-12-CD"
PLATE_DASHED == <<65, 66, 45, 49, 50, 45, 67, 68>>
\* "AB12CD"
PLATE_PLAIN == <<65, 66, 49, 50, 67, 68>>
\* "ab 1" followed by ARABIC-INDIC DIGIT ONE
PLATE_MIXED == <<97, 98, 32, 49, 1633>>
\* "XY-99"
PLATE_OTHER == <<88, 89, 45, 57, 57>>

ReservationJson(id, plate) ==
    [ReservationID |-> id, ValidFrom |-> "from", ValidUntil |-> "until",
     LicensePlate |-> [Value |-> plate]]

BaseA ==
    [Permits |-> <<
        [PermitMedias |-> <<
            [TypeID |-> 1, Code |-> "100", ZoneCode |-> "A",
             LicensePlates |-> <<[Value |-> PLATE_DASHED, Name |-> "first"],
                                 [Value |-> PLATE_PLAIN, Name |-> "second"]>>,
             ActiveReservations |-> <<ReservationJson(7, PLATE_PLAIN)>>],
            [TypeID |-> 2, Code |-> "200", ZoneCode |-> "B",
             LicensePlates |-> <<>>,
             ActiveReservations |-> <<>>] >>],
        [PermitMedias |-> <<
            [TypeID |-> 1, Code |-> "300", ZoneCode |-> "A",
             LicensePlates |-> <<[Value |-> PLATE_MIXED, Name |-> "third"]>>,
             ActiveReservations |-> <<ReservationJson(8, PLATE_MIXED),
                                      ReservationJson(9, PLATE_DASHED)>>] >>] >>]

BaseB ==
    [Permits |-> <<
        [PermitMedias |-> <<
            [TypeID |-> 3, Code |-> "400", ZoneCode |-> "C",
             LicensePlates |-> <<[Value |-> PLATE_OTHER, Name |-> "other"]>>,
             ActiveReservations |-> <<>>] >>] >>]

\* the second record lacks ZoneCode
BaseBad ==
    [Permits |-> <<
        [PermitMedias |-> <<
            [TypeID |-> 3, Code |-> "400", ZoneCode |-> "C",
             LicensePlates |-> <<[Value |-> PLATE_OTHER, Name |-> "other"]>>,
             ActiveReservations |-> <<>>],
            [TypeID |-> 4, Code |-> "500",
             LicensePlates |-> <<>>,
             ActiveReservations |-> <<>>] >>] >>]

JsonBodies ==
    {"tok_abc", "tok_e", "err", "err_tok", "base_a", "base_b", "base_bad",
     "reservation"}

Bodies == JsonBodies \cup {"<html>"}

\* response.json(): the parsed document of a body that is valid JSON
ParseJson(text) ==
    CASE text = "tok_abc" -> [Token |-> TOKEN_ABC]
      [] text = "tok_e" -> [Token |-> TOKEN_E]
      [] text = "err" -> [ErrorMessage |-> "denied"]
      [] text = "err_tok" -> [ErrorMessage |-> "denied", Token |-> TOKEN_ABC]
      [] text = "base_a" -> BaseA
      [] text = "base_b" -> BaseB
      [] text = "base_bad" -> BaseBad
      [] text = "reservation" -> [ReservationID |-> 7]

Statuses == {200, 201, 302, 404, 500}

\* the Content-Type header of a response: absent, or one of these values
ContentTypes == {APPLICATION_JSON, APPLICATION_JSON_UTF8, TEXT_HTML}

ResponseHeaders ==
    {[h \in {} |-> <<>>]} \cup
    {[h \in {"Content-Type"} |-> ct] : ct \in ContentTypes}

Responses == [status : Statuses, headers : ResponseHeaders, body : Bodies]

(***************************************************************************)
(* update(): flattening and normalization of a getbase document.           *)
(***************************************************************************)
RECURSIVE Flatten(_)
Flatten(lists) ==
    IF lists = <<>> THEN <<>> ELSE Head(lists) \o Flatten(Tail(lists))

\* response["Permits"] and sublist["PermitMedias"] can be subscripted
HasPermitMedias(response) ==
    /\ "Permits" \in DOMAIN response
    /\ \A i \in DOMAIN response.Permits :
          "PermitMedias" \in DOMAIN response.Permits[i]

\* variant: only the first entry of Permits is read
PermitMediasFirstOnly(response) ==
    IF response.Permits = <<>> THEN <<>>
    ELSE response.Permits[1].PermitMedias

\* [item for sublist in response["Permits"] for item in sublist["PermitMedias"]]
PermitMedias(response) ==
    Flatten([i \in DOMAIN response.Permits |-> response.Permits[i].PermitMedias])

\* every key the comprehension subscripts is present in the record
HasPermitKeys(permit) ==
    /\ {"TypeID", "Code", "ZoneCode", "LicensePlates", "ActiveReservations"}
          \subseteq DOMAIN permit
    /\ \A i \in DOMAIN permit.LicensePlates :
          {"Value", "Name"} \subseteq DOMAIN permit.LicensePlates[i]
    /\ \A i \in DOMAIN permit.ActiveReservations :
          LET r == permit.ActiveReservations[i] IN
          /\ {"ReservationID", "ValidFrom", "ValidUntil", "LicensePlate"}
                \subseteq DOMAIN r
          /\ "Value" \in DOMAIN r.LicensePlate

\* variant: the first entry with a key is kept
LicensePlatesFirstWins(plates) ==
    LET keys == {NormalizePlate(plates[i].Value) : i \in DOMAIN plates}
        first(k) == CHOOSE i \in DOMAIN plates :
                       /\ NormalizePlate(plates[i].Value) = k
                       /\ \A j \in DOMAIN plates :
                             NormalizePlate(plates[j].Value) = k => j >= i
    IN [k \in keys |-> plates[first(k)].Name]

\* the dict comprehension over permit["LicensePlates"]: a later entry with
\* the same key replaces an earlier one
LicensePlates(plates) ==
    LET keys == {NormalizePlate(plates[i].Value) : i \in DOMAIN plates}
        last(k) == CHOOSE i \in DOMAIN plates :
                      /\ NormalizePlate(plates[i].Value) = k
                      /\ \A j \in DOMAIN plates :
                            NormalizePlate(plates[j].Value) = k => j <= i
    IN [k \in keys |-> plates[last(k)].Name]

Reservations(reservations) ==
    [i \in DOMAIN reservations |->
        [id |-> reservations[i].ReservationID,
         valid_from |-> reservations[i].ValidFrom,
         valid_until |-> reservations[i].ValidUntil,
         license_plate |-> reservations[i].LicensePlate.Value]]

NormalizePermit(permit) ==
    [type_id |-> permit.TypeID,
     code |-> permit.Code,
     zone_code |-> permit.ZoneCode,
     license_plates |-> LicensePlates(permit.LicensePlates),
     reservations |-> Reservations(permit.ActiveReservations)]

\* the list update() builds from a getbase document
NormalizePermits(response) ==
    LET medias == PermitMedias(response)
    IN [i \in DOMAIN medias |-> NormalizePermit(medias[i])]

\* building the list raises no KeyError
CanNormalize(response) ==
    /\ HasPermitMedias(response)
    /\ \A i \in DOMAIN PermitMedias(response) :
          HasPermitKeys(PermitMedias(response)[i])

(***************************************************************************)
(* The state of one DVSPortal client, its session and its callers.         *)
(***************************************************************************)
VARIABLES
    _token,           \* self._token: [set |-> FALSE] is None
    _permits,         \* self._permits: [set |-> FALSE] is "no such attribute"
    _close_session,   \* self._close_session
    request_timeout,  \* self.request_timeout, in seconds
    session,          \* self._session: is it closed, how often was close() called
    tasks,            \* per calling task: the operation it runs and where it is
    nOps,             \* operations started so far
    logins,           \* login requests sent, logins that stored a token, and
                      \* the body text of the last login that stored one
    closes,           \* close() calls made on the client
    fetched,          \* body texts of the getbase responses that update()
                      \* built a snapshot from, oldest first
    scope,            \* the "async with" block of the caller, if it uses one
    calc              \* a function of update() applied on its own: input, output

vars == <<_token, _permits, _close_session, request_timeout, session, tasks,
          nOps, logins, closes, fetched, scope, calc>>

None == [set |-> FALSE]
Some(v) == [set |-> TRUE, val |-> v]

Return(v) == [kind |-> "return", value |-> v]
Raise(exc, status, payload) ==
    [kind |-> "raise", exc |-> exc, status |-> status, payload |-> payload]
NoResult == [kind |-> "none"]

NoRequest == [uri |-> "none"]
NoResponse == [status |-> 0]
NoArgs == [none |-> TRUE]

\* the caller uses no "async with" block
NoScope == [state |-> "none", exc |-> NoResult]

\* no function is applied on its own
NoCalc == [fn |-> "none"]

IdleTask ==
    [op |-> "none", ctx |-> "none", pc |-> "idle", args |-> NoArgs,
     req |-> NoRequest, resp |-> NoResponse, elapsed |-> 0,
     result |-> NoResult, sent |-> <<>>]

CreateArgs ==
    {[license_plate_value |-> PLATE_DASHED, license_plate_name |-> "first",
      type_id |-> 1, code |-> "100"]}

EndArgs == {[type_id |-> 1, code |-> "100", reservation_id |-> 7]}

ArgsOf(op) ==
    CASE op = "create_reservation" -> CreateArgs
      [] op = "end_reservation" -> EndArgs
      [] OTHER -> {NoArgs}

\* DVSPortal(api_host, identifier, password, request_timeout=.., session=..)
Init ==
    /\ _token = None
    /\ _permits = None
    /\ _close_session \in BOOLEAN
    /\ request_timeout \in 1..MaxTimeout
    /\ session = [closed |-> FALSE, close_calls |-> 0]
    /\ tasks = [t \in Tasks |-> IdleTask]
    /\ nOps = 0
    /\ logins = [sent |-> 0, ok |-> 0, by |-> ""]
    /\ closes = 0
    /\ fetched = <<>>
    /\ scope = NoScope
    /\ calc = NoCalc

(***************************************************************************)
(* The code of an operation between two suspensions.  A segment ends by    *)
(* suspending in _request() (Suspend) or by finishing the operation        *)
(* (Finish).                                                               *)
(***************************************************************************)
Suspend(req, ctx) == [kind |-> "send", req |-> req, ctx |-> ctx]
Finish(result) == [kind |-> "done", result |-> result]

EmptyDict == [k \in {} |-> ""]

\* {**default_headers, **headers}
MergeHeaders(default_headers, headers) ==
    [k \in DOMAIN default_headers \cup DOMAIN headers |->
        IF k \in DOMAIN headers THEN headers[k] ELSE default_headers[k]]

DefaultHeaders == [h \in {"User-Agent"} |-> "PythonDVSPortal"]

\* the request token() makes
LoginRequest ==
    [uri |-> "login", method |-> "POST",
     json |-> [identifier |-> "identifier", loginMethod |-> "Pas",
               password |-> "password", permitMediaTypeID |-> 1],
     headers |-> EmptyDict]

\* variant: the token is sent as it is
AuthorizationHeaderRaw(tok) ==
    [h \in {"Authorization"} |-> TOKEN_PREFIX \o tok]

\* the dictionary authorization_header() returns
AuthorizationHeader(tok) ==
    [h \in {"Authorization"} |-> TOKEN_PREFIX \o B64Encode(Utf8Encode(tok))]

\* the request of update(), end_reservation() and create_reservation()
MainRequest(op, args, hdr) ==
    CASE op = "update" ->
            [uri |-> "login/getbase", method |-> "POST", json |-> EmptyDict,
             headers |-> hdr]
      [] op = "end_reservation" ->
            [uri |-> "reservation/end", method |-> "POST",
             json |-> [ReservationID |-> args.reservation_id,
                       permitMediaTypeID |-> args.type_id,
                       permitMediaCode |-> args.code],
             headers |-> hdr]
      [] op = "create_reservation" ->
            [uri |-> "reservation/create", method |-> "POST",
             json |-> [DateFrom |-> "now",
                       LicensePlate |-> [Value |-> args.license_plate_value,
                                         Name |-> args.license_plate_name],
                       permitMediaTypeID |-> args.type_id,
                       permitMediaCode |-> args.code],
             headers |-> hdr]

\* authorization_header() from the return of its token() call on, followed
\* by what the caller does with the header
AfterHeaderToken(op, args, tok) ==
    IF ~tok.set THEN Finish(Raise("AttributeError", 0, "encode"))
    ELSE IF op = "authorization_header"
         THEN Finish(Return(AuthorizationHeader(tok.val)))
         ELSE Suspend(MainRequest(op, args, AuthorizationHeader(tok.val)), "main")

\* variant: authorization_header() logs in whether or not a token is cached
authorization_headerAlwaysLogin(op, args, tok) ==
    Suspend(LoginRequest, "login")

\* authorization_header() from its start
authorization_header(op, args, tok) ==
    IF ~tok.set THEN Suspend(LoginRequest, "login")
    ELSE AfterHeaderToken(op, args, tok)

\* variant: token() logs in whether or not a token is cached
BeginAlwaysLogin(op, args, tok) ==
    CASE op = "token" -> Suspend(LoginRequest, "login")
      [] op = "update" ->
            IF ~tok.set THEN Suspend(LoginRequest, "login1")
            ELSE authorization_header(op, args, tok)
      [] op \in {"authorization_header", "create_reservation", "end_reservation"} ->
            authorization_header(op, args, tok)

\* an operation from its start to its first suspension
Begin(op, args, tok) ==
    CASE op = "token" ->
            IF ~tok.set THEN Suspend(LoginRequest, "login")
            ELSE Finish(Return(tok.val))
      [] op = "update" ->
            IF ~tok.set THEN Suspend(LoginRequest, "login1")
            ELSE authorization_header(op, args, tok)
      [] op \in {"authorization_header", "create_reservation", "end_reservation"} ->
            authorization_header(op, args, tok)

\* token() after its login request returned: what it caches
TokenStored(response_json) ==
    IF "Token" \in DOMAIN response_json THEN Some(response_json.Token) ELSE None

\* the operation from the return of a login request to the next suspension
AfterLogin(op, ctx, args, response_json) ==
    IF "Token" \notin DOMAIN response_json
    THEN Finish(Raise("KeyError", 0, "Token"))
    ELSE IF ctx = "login1"
         THEN authorization_header(op, args, TokenStored(response_json))
         ELSE IF op = "token"
              THEN Finish(Return(response_json.Token))
              ELSE AfterHeaderToken(op, args, TokenStored(response_json))

\* the operation from the return of its own request to its end
AfterMain(op, response_json) ==
    IF op = "update"
    THEN IF CanNormalize(response_json)
         THEN Finish(Return("None"))
         ELSE Finish(Raise("KeyError", 0, "field"))
    ELSE Finish(Return(response_json))

\* variant: the permits built before a record lacks a key are stored
PermitsStoredPartial(old, response_json) ==
    IF CanNormalize(response_json)
    THEN Some(NormalizePermits(response_json))
    ELSE IF HasPermitMedias(response_json)
         THEN LET medias == SelectSeq(PermitMedias(response_json), HasPermitKeys)
              IN Some([i \in DOMAIN medias |-> NormalizePermit(medias[i])])
         ELSE old

\* variant: the new permits are added to the snapshot
PermitsMerged(old, response_json) ==
    IF CanNormalize(response_json)
    THEN IF old.set
         THEN Some(old.val \o NormalizePermits(response_json))
         ELSE Some(NormalizePermits(response_json))
    ELSE old

\* update(): the snapshot after the getbase request returned
PermitsStored(old, response_json) ==
    IF CanNormalize(response_json)
    THEN Some(NormalizePermits(response_json))
    ELSE old

(***************************************************************************)
(* _request(): classification of a response.                               *)
(***************************************************************************)
\* variant: a missing header counts as "application/json"
ContentTypeDefaultJson(headers) ==
    IF "Content-Type" \in DOMAIN headers THEN headers["Content-Type"]
    ELSE APPLICATION_JSON

\* response.headers.get("Content-Type", "")
ContentType(headers) ==
    IF "Content-Type" \in DOMAIN headers THEN headers["Content-Type"] ELSE <<>>

\* content_type.startswith("application/json")
IsJsonContentType(headers) == StartsWith(ContentType(headers), APPLICATION_JSON)

\* variant: only a 4xx status or an ErrorMessage is an error
IsErrorResponseClientOnly(status, response_json) ==
    \/ (status \div 100) = 4
    \/ "ErrorMessage" \in DOMAIN response_json

\* variant: only the status decides
IsErrorResponseStatusOnly(status, response_json) ==
    (status \div 100) \in {4, 5}

\* (response.status // 100) in [4, 5] or "ErrorMessage" in response_json
IsErrorResponse(status, response_json) ==
    \/ (status \div 100) \in {4, 5}
    \/ "ErrorMessage" \in DOMAIN response_json

\* what _request() raises for a response that is not JSON
TextError(resp) == Raise("DVSPortalError", resp.status, [message |-> resp.body])

\* what _request() raises for a JSON response that is an error
JsonError(resp) == Raise("DVSPortalError", resp.status, ParseJson(resp.body))

(***************************************************************************)
(* Steps of a task.                                                        *)
(***************************************************************************)
Running(t) == tasks[t].pc \notin {"idle", "done"}

\* The task goes on as the segment says: it suspends in session.request()
\* under the timeout, or it ends.  A closed session refuses the request.
Dispatch(t, base, plan, stored, by) ==
    LET sends == plan.kind = "send" /\ ~session.closed
    IN /\ tasks' = [tasks EXCEPT ![t] =
              IF sends
              THEN [base EXCEPT !.pc = "await_request", !.ctx = plan.ctx,
                                !.req = [plan.req EXCEPT !.headers =
                                    MergeHeaders(DefaultHeaders, plan.req.headers)],
                                !.resp = NoResponse, !.elapsed = 0,
                                !.sent = Append(base.sent, plan.req.uri)]
              ELSE [base EXCEPT !.pc = "done", !.elapsed = 0,
                                !.result = IF plan.kind = "send"
                                           THEN Raise("RuntimeError", 0, "Session is closed")
                                           ELSE plan.result]]
       /\ logins' = [sent |-> IF sends /\ plan.req.uri = "login"
                                THEN logins.sent + 1 ELSE logins.sent,
                      ok |-> logins.ok + stored,
                      by |-> by]

\* a caller starts token(), authorization_header(), update(),
\* create_reservation() or end_reservation()
Start(t, op, args) ==
    /\ ~Running(t)
    /\ nOps < MaxOps
    /\ nOps' = nOps + 1
    /\ Dispatch(t, [IdleTask EXCEPT !.op = op, !.args = args],
                Begin(op, args, _token), 0, logins.by)
    /\ UNCHANGED <<scope, calc>>
    /\ UNCHANGED <<_token, _permits, _close_session, request_timeout,
                   session, closes, fetched>>

\* variant: permits() starts from an empty list
PermitsOrEmpty(t) ==
    /\ ~Running(t)
    /\ nOps < MaxOps
    /\ nOps' = nOps + 1
    /\ tasks' = [tasks EXCEPT ![t] =
          [IdleTask EXCEPT !.op = "permits", !.pc = "done",
                           !.result = IF _permits.set
                                      THEN Return(_permits.val)
                                      ELSE Return(<<>>)]]
    /\ UNCHANGED <<scope, calc>>
    /\ UNCHANGED <<_token, _permits, _close_session, request_timeout,
                   session, logins, closes, fetched>>

\* permits()
Permits(t) ==
    /\ ~Running(t)
    /\ nOps < MaxOps
    /\ nOps' = nOps + 1
    /\ tasks' = [tasks EXCEPT ![t] =
          [IdleTask EXCEPT !.op = "permits", !.pc = "done",
                           !.result = IF _permits.set
                                      THEN Return(_permits.val)
                                      ELSE Raise("AttributeError", 0, "_permits")]]
    /\ UNCHANGED <<scope, calc>>
    /\ UNCHANGED <<_token, _permits, _close_session, request_timeout,
                   session, logins, closes, fetched>>

\* self._session.close()
SessionClosed(s) == [closed |-> TRUE, close_calls |-> s.close_calls + 1]

\* variant: close() remembers that it closed the session
CloseOnce(t, op) ==
    /\ ~Running(t)
    /\ nOps < MaxOps
    /\ nOps' = nOps + 1
    /\ closes' = closes + 1
    /\ session' = IF _close_session /\ ~session.closed
                  THEN SessionClosed(session) ELSE session
    /\ tasks' = [tasks EXCEPT ![t] =
          [IdleTask EXCEPT !.op = op, !.pc = "done", !.result = Return("None")]]
    /\ UNCHANGED <<scope, calc>>
    /\ UNCHANGED <<_token, _permits, _close_session, request_timeout,
                   logins, fetched>>

\* variant: close() closes the session whoever owns it
CloseAlways(t, op) ==
    /\ ~Running(t)
    /\ nOps < MaxOps
    /\ nOps' = nOps + 1
    /\ closes' = closes + 1
    /\ session' = SessionClosed(session)
    /\ tasks' = [tasks EXCEPT ![t] =
          [IdleTask EXCEPT !.op = op, !.pc = "done", !.result = Return("None")]]
    /\ UNCHANGED <<scope, calc>>
    /\ UNCHANGED <<_token, _permits, _close_session, request_timeout,
                   logins, fetched>>

\* close(), called by the caller or by __aexit__()
Close(t, op) ==
    /\ ~Running(t)
    /\ nOps < MaxOps
    /\ nOps' = nOps + 1
    /\ closes' = closes + 1
    /\ session' = IF _close_session THEN SessionClosed(session) ELSE session
    /\ tasks' = [tasks EXCEPT ![t] =
          [IdleTask EXCEPT !.op = op, !.pc = "done", !.result = Return("None")]]
    /\ UNCHANGED <<scope, calc>>
    /\ UNCHANGED <<_token, _permits, _close_session, request_timeout,
                   logins, fetched>>

\* a second passes while session.request() is awaited; the timeout of
\* request_timeout seconds is running
TickRequest(t) ==
    /\ tasks[t].pc = "await_request"
    /\ tasks[t].elapsed < request_timeout
    /\ tasks' = [tasks EXCEPT ![t].elapsed = @ + 1]
    /\ UNCHANGED <<scope, calc>>
    /\ UNCHANGED <<_token, _permits, _close_session, request_timeout,
                   session, nOps, logins, closes, fetched>>

\* asyncio.TimeoutError out of the timeout block
RequestTimeout(t) ==
    /\ tasks[t].pc = "await_request"
    /\ tasks[t].elapsed = request_timeout
    /\ tasks' = [tasks EXCEPT ![t].pc = "done", ![t].elapsed = 0,
                              ![t].result = Raise("DVSPortalConnectionError", 0, "timeout")]
    /\ UNCHANGED <<scope, calc>>
    /\ UNCHANGED <<_token, _permits, _close_session, request_timeout,
                   session, nOps, logins, closes, fetched>>

\* aiohttp.ClientError or socket.gaierror out of session.request()
RequestFails(t) ==
    /\ tasks[t].pc = "await_request"
    /\ tasks' = [tasks EXCEPT ![t].pc = "done", ![t].elapsed = 0,
                              ![t].result = Raise("DVSPortalConnectionError", 0, "communication")]
    /\ UNCHANGED <<scope, calc>>
    /\ UNCHANGED <<_token, _permits, _close_session, request_timeout,
                   session, nOps, logins, closes, fetched>>

\* session.request() returns the response (status and headers); the
\* timeout block is left and the body is read next
ResponseArrives(t, resp) ==
    /\ tasks[t].pc = "await_request"
    /\ tasks' = [tasks EXCEPT ![t].resp = resp,
                              ![t].pc = IF IsJsonContentType(resp.headers)
                                        THEN "await_json" ELSE "await_text"]
    /\ UNCHANGED <<scope, calc>>
    /\ UNCHANGED <<_token, _permits, _close_session, request_timeout,
                   session, nOps, logins, closes, fetched>>

\* a second passes while response.text() or response.json() is awaited
TickBody(t) ==
    /\ tasks[t].pc \in {"await_text", "await_json"}
    /\ tasks[t].elapsed < request_timeout + MaxStall
    /\ tasks' = [tasks EXCEPT ![t].elapsed = @ + 1]
    /\ UNCHANGED <<scope, calc>>
    /\ UNCHANGED <<_token, _permits, _close_session, request_timeout,
                   session, nOps, logins, closes, fetched>>

\* the connection breaks while the body is read
BodyReadFails(t) ==
    /\ tasks[t].pc \in {"await_text", "await_json"}
    /\ tasks' = [tasks EXCEPT ![t].pc = "done", ![t].elapsed = 0,
                              ![t].result = Raise("ClientPayloadError", 0, "payload")]
    /\ UNCHANGED <<scope, calc>>
    /\ UNCHANGED <<_token, _permits, _close_session, request_timeout,
                   session, nOps, logins, closes, fetched>>

\* response.text() returns
TextRead(t) ==
    /\ tasks[t].pc = "await_text"
    /\ tasks' = [tasks EXCEPT ![t].pc = "done", ![t].elapsed = 0,
                              ![t].result = TextError(tasks[t].resp)]
    /\ UNCHANGED <<scope, calc>>
    /\ UNCHANGED <<_token, _permits, _close_session, request_timeout,
                   session, nOps, logins, closes, fetched>>

\* variant: an error response to an authenticated request drops the token
JsonReadRaisesDropsToken(t) ==
    LET resp == tasks[t].resp IN
    /\ tasks[t].pc = "await_json"
    /\ \/ resp.body \notin JsonBodies
       \/ /\ resp.body \in JsonBodies
          /\ IsErrorResponse(resp.status, ParseJson(resp.body))
    /\ tasks' = [tasks EXCEPT ![t].pc = "done", ![t].elapsed = 0,
                              ![t].result = IF resp.body \notin JsonBodies
                                            THEN Raise("JSONDecodeError", 0, resp.body)
                                            ELSE JsonError(resp)]
    /\ _token' = IF tasks[t].ctx = "main" THEN None ELSE _token
    /\ UNCHANGED <<scope, calc>>
    /\ UNCHANGED <<_permits, _close_session, request_timeout,
                   session, nOps, logins, closes, fetched>>

\* response.json() fails on a body that is not JSON, or returns a document
\* that _request() classifies as an error
JsonReadRaises(t) ==
    LET resp == tasks[t].resp IN
    /\ tasks[t].pc = "await_json"
    /\ \/ resp.body \notin JsonBodies
       \/ /\ resp.body \in JsonBodies
          /\ IsErrorResponse(resp.status, ParseJson(resp.body))
    /\ tasks' = [tasks EXCEPT ![t].pc = "done", ![t].elapsed = 0,
                              ![t].result = IF resp.body \notin JsonBodies
                                            THEN Raise("JSONDecodeError", 0, resp.body)
                                            ELSE JsonError(resp)]
    /\ UNCHANGED <<scope, calc>>
    /\ UNCHANGED <<_token, _permits, _close_session, request_timeout,
                   session, nOps, logins, closes, fetched>>

\* variant: a token that is already cached is kept
LoginReturnsKeepsFirst(t) ==
    LET resp == tasks[t].resp
        response_json == ParseJson(resp.body)
    IN
    /\ tasks[t].pc = "await_json"
    /\ tasks[t].ctx \in {"login1", "login"}
    /\ resp.body \in JsonBodies
    /\ ~IsErrorResponse(resp.status, response_json)
    /\ _token' = IF _token.set THEN _token ELSE TokenStored(response_json)
    /\ Dispatch(t, tasks[t],
                AfterLogin(tasks[t].op, tasks[t].ctx, tasks[t].args, response_json),
                IF TokenStored(response_json).set THEN 1 ELSE 0,
                IF TokenStored(response_json).set THEN resp.body ELSE logins.by)
    /\ UNCHANGED <<scope, calc>>
    /\ UNCHANGED <<_permits, _close_session, request_timeout, session, nOps,
                   closes, fetched>>

\* variant: token() reads the document before _request() has classified it
LoginReturnsUnchecked(t) ==
    LET resp == tasks[t].resp
        response_json == ParseJson(resp.body)
    IN
    /\ tasks[t].pc = "await_json"
    /\ tasks[t].ctx \in {"login1", "login"}
    /\ resp.body \in JsonBodies
    /\ _token' = TokenStored(response_json)
    /\ Dispatch(t, tasks[t],
                AfterLogin(tasks[t].op, tasks[t].ctx, tasks[t].args, response_json),
                IF TokenStored(response_json).set THEN 1 ELSE 0,
                IF TokenStored(response_json).set THEN resp.body ELSE logins.by)
    /\ UNCHANGED <<scope, calc>>
    /\ UNCHANGED <<_permits, _close_session, request_timeout, session, nOps,
                   closes, fetched>>

\* response.json() returns, _request() returns the document to token(),
\* which caches the token and returns to its caller
LoginReturns(t) ==
    LET resp == tasks[t].resp
        response_json == ParseJson(resp.body)
    IN
    /\ tasks[t].pc = "await_json"
    /\ tasks[t].ctx \in {"login1", "login"}
    /\ resp.body \in JsonBodies
    /\ ~IsErrorResponse(resp.status, response_json)
    /\ _token' = TokenStored(response_json)
    /\ Dispatch(t, tasks[t],
                AfterLogin(tasks[t].op, tasks[t].ctx, tasks[t].args, response_json),
                IF TokenStored(response_json).set THEN 1 ELSE 0,
                IF TokenStored(response_json).set THEN resp.body ELSE logins.by)
    /\ UNCHANGED <<scope, calc>>
    /\ UNCHANGED <<_permits, _close_session, request_timeout, session, nOps,
                   closes, fetched>>

\* variant: a reservation that was created or ended drops the snapshot
MainReturnsDropsSnapshot(t) ==
    LET resp == tasks[t].resp
        response_json == ParseJson(resp.body)
    IN
    /\ tasks[t].pc = "await_json"
    /\ tasks[t].ctx = "main"
    /\ resp.body \in JsonBodies
    /\ ~IsErrorResponse(resp.status, response_json)
    /\ tasks' = [tasks EXCEPT ![t].pc = "done", ![t].elapsed = 0,
                              ![t].result = AfterMain(tasks[t].op, response_json).result]
    /\ _permits' = IF tasks[t].op = "update"
                   THEN PermitsStored(_permits, response_json)
                   ELSE None
    /\ fetched' = IF tasks[t].op = "update"
                  THEN (IF CanNormalize(response_json)
                        THEN Append(fetched, resp.body) ELSE fetched)
                  ELSE <<>>
    /\ UNCHANGED <<scope, calc>>
    /\ UNCHANGED <<_token, _close_session, request_timeout, session, nOps,
                   logins, closes>>

\* response.json() returns, _request() returns the document to update(),
\* create_reservation() or end_reservation()
MainReturns(t) ==
    LET resp == tasks[t].resp
        response_json == ParseJson(resp.body)
    IN
    /\ tasks[t].pc = "await_json"
    /\ tasks[t].ctx = "main"
    /\ resp.body \in JsonBodies
    /\ ~IsErrorResponse(resp.status, response_json)
    /\ tasks' = [tasks EXCEPT ![t].pc = "done", ![t].elapsed = 0,
                              ![t].result = AfterMain(tasks[t].op, response_json).result]
    /\ _permits' = IF tasks[t].op = "update"
                   THEN PermitsStored(_permits, response_json)
                   ELSE _permits
    /\ fetched' = IF tasks[t].op = "update" /\ CanNormalize(response_json)
                  THEN Append(fetched, resp.body) ELSE fetched
    /\ UNCHANGED <<scope, calc>>
    /\ UNCHANGED <<_token, _close_session, request_timeout, session, nOps,
                   logins, closes>>

RequestOperations ==
    {"token", "authorization_header", "update", "create_reservation",
     "end_reservation"}

\* One caller awaits each operation before it starts the next.
Next ==
    \/ \E op \in RequestOperations : \E args \in ArgsOf(op) :
          Start(MainTask, op, args)
    \/ Permits(MainTask)
    \/ \E op \in {"close", "__aexit__"} : Close(MainTask, op)
    \/ TickRequest(MainTask)
    \/ RequestTimeout(MainTask)
    \/ RequestFails(MainTask)
    \/ \E resp \in Responses : ResponseArrives(MainTask, resp)
    \/ TickBody(MainTask)
    \/ BodyReadFails(MainTask)
    \/ TextRead(MainTask)
    \/ JsonReadRaises(MainTask)
    \/ LoginReturns(MainTask)
    \/ MainReturns(MainTask)

Spec == Init /\ [][Next]_vars

(***************************************************************************)
(* Several tasks use the client at once: an operation of one task may      *)
(* start while an operation of another is suspended in _request().         *)
(***************************************************************************)
\* the operations started in a run with several tasks
MaxConcurrentOps == 2

\* the responses of the server in these runs
ConcurrentResponses ==
    {[status |-> 200, headers |-> [h \in {"Content-Type"} |-> APPLICATION_JSON],
      body |-> b] : b \in {"tok_abc", "tok_e", "base_a", "base_b", "base_bad"}}
    \cup
    {[status |-> 404, headers |-> [h \in {"Content-Type"} |-> APPLICATION_JSON],
      body |-> "err"]}

InitConcurrent ==
    /\ Init
    /\ _close_session
    /\ request_timeout = 1

NextConcurrent ==
    \/ \E t \in Tasks : \E op \in {"token", "update"} :
          nOps < MaxConcurrentOps /\ Start(t, op, NoArgs)
    \/ \E t \in Tasks : RequestFails(t)
    \/ \E t \in Tasks : \E resp \in ConcurrentResponses : ResponseArrives(t, resp)
    \/ \E t \in Tasks : JsonReadRaises(t)
    \/ \E t \in Tasks : LoginReturns(t)
    \/ \E t \in Tasks : MainReturns(t)

SpecConcurrent == InitConcurrent /\ [][NextConcurrent]_vars

(***************************************************************************)
(* The client used as "async with DVSPortal(..) as dvs: <body>": the body  *)
(* awaits operations one after the other; an exception an operation raises *)
(* leaves the body; __aexit__() runs when the body is left either way.     *)
(***************************************************************************)
\* the operation the body awaited last has raised
BodyRaised(t) ==
    /\ tasks[t].pc = "done"
    /\ tasks[t].result.kind = "raise"

\* the body is running and nothing has been raised in it
InBody(t) ==
    /\ scope.state = "inside"
    /\ ~BodyRaised(t)

\* __aenter__(): returns the client, the body starts
AsyncEnter ==
    /\ scope.state = "none"
    /\ scope' = [state |-> "inside", exc |-> NoResult]
    /\ UNCHANGED <<_token, _permits, _close_session, request_timeout, session,
                   tasks, nOps, logins, closes, fetched, calc>>

\* variant: __aexit__() closes only when the body ended without an exception
AsyncExitOnSuccess(t) ==
    /\ scope.state = "inside"
    /\ ~Running(t)
    /\ closes' = IF BodyRaised(t) THEN closes ELSE closes + 1
    /\ session' = IF _close_session /\ ~BodyRaised(t)
                  THEN SessionClosed(session) ELSE session
    /\ scope' = [state |-> "left",
                 exc |-> IF BodyRaised(t) THEN tasks[t].result ELSE NoResult]
    /\ UNCHANGED <<_token, _permits, _close_session, request_timeout,
                   tasks, nOps, logins, fetched, calc>>

\* __aexit__(*exc_info): the body was left, by its end or by an exception;
\* close() runs, and as __aexit__() returns None the exception goes on to
\* the caller
AsyncExit(t) ==
    /\ scope.state = "inside"
    /\ ~Running(t)
    /\ closes' = closes + 1
    /\ session' = IF _close_session THEN SessionClosed(session) ELSE session
    /\ scope' = [state |-> "left",
                 exc |-> IF BodyRaised(t) THEN tasks[t].result ELSE NoResult]
    /\ UNCHANGED <<_token, _permits, _close_session, request_timeout,
                   tasks, nOps, logins, fetched, calc>>

NextScoped ==
    \/ AsyncEnter
    \/ \E op \in RequestOperations : \E args \in ArgsOf(op) :
          InBody(MainTask) /\ Start(MainTask, op, args)
    \/ InBody(MainTask) /\ Permits(MainTask)
    \/ InBody(MainTask) /\ Close(MainTask, "close")
    \/ TickRequest(MainTask)
    \/ RequestTimeout(MainTask)
    \/ RequestFails(MainTask)
    \/ \E resp \in Responses : ResponseArrives(MainTask, resp)
    \/ TickBody(MainTask)
    \/ BodyReadFails(MainTask)
    \/ TextRead(MainTask)
    \/ JsonReadRaises(MainTask)
    \/ LoginReturns(MainTask)
    \/ MainReturns(MainTask)
    \/ AsyncExit(MainTask)

SpecScoped == Init /\ [][NextScoped]_vars

(***************************************************************************)
(* The functions of update() applied on their own, to inputs that no       *)
(* response of the model above carries.                                    *)
(***************************************************************************)
\* 'A' 'Z' 'a' 'z' '0' '9', their neighbours '@' '[' '`' '{' '/' ':',
\* '-' ' ', e-acute and ARABIC-INDIC DIGIT ONE
PlateAlphabet ==
    {65, 90, 97, 122, 48, 57, 64, 91, 96, 123, 47, 58, 45, 32, 233, 1633}

PlateInputs == UNION {[1..n -> PlateAlphabet] : n \in 0..MaxPlateLen}

PlateEntries ==
    {[Value |-> PLATE_DASHED, Name |-> "first"],
     [Value |-> PLATE_PLAIN, Name |-> "second"],
     [Value |-> PLATE_OTHER, Name |-> "other"]}

LicensePlateInputs == UNION {[1..n -> PlateEntries] : n \in 0..MaxPlates}

MediaRecords ==
    {[TypeID |-> 1, Code |-> "100", ZoneCode |-> "A",
      LicensePlates |-> <<[Value |-> PLATE_DASHED, Name |-> "first"]>>,
      ActiveReservations |-> <<ReservationJson(7, PLATE_PLAIN),
                               ReservationJson(8, PLATE_OTHER)>>],
     [TypeID |-> 2, Code |-> "200", ZoneCode |-> "B",
      LicensePlates |-> <<>>,
      ActiveReservations |-> <<>>],
     [TypeID |-> 1, Code |-> "300", ZoneCode |-> "C",
      LicensePlates |-> <<[Value |-> PLATE_OTHER, Name |-> "other"]>>,
      ActiveReservations |-> <<ReservationJson(9, PLATE_DASHED)>>]}

MediaLists == UNION {[1..n -> MediaRecords] : n \in 0..MaxMedias}

BaseInputs ==
    UNION {[1..n -> [PermitMedias : MediaLists]] : n \in 0..MaxLists}

CalcInput(fn, input) == [fn |-> fn, input |-> input, done |-> FALSE]
CalcOutput(fn, input, output) ==
    [fn |-> fn, input |-> input, done |-> TRUE, output |-> output]

InitCalc ==
    /\ _token = None
    /\ _permits = None
    /\ _close_session = TRUE
    /\ request_timeout = 1
    /\ session = [closed |-> FALSE, close_calls |-> 0]
    /\ tasks = [t \in Tasks |-> IdleTask]
    /\ nOps = 0
    /\ logins = [sent |-> 0, ok |-> 0, by |-> ""]
    /\ closes = 0
    /\ fetched = <<>>
    /\ scope = NoScope
    /\ calc \in {CalcInput("plate", p) : p \in PlateInputs}
             \cup {CalcInput("license_plates", l) : l \in LicensePlateInputs}
             \cup {CalcInput("permits", [Permits |-> b]) : b \in BaseInputs}

\* re.sub(...) on the Value of a license plate
NormalizePlateApplied ==
    /\ calc.fn = "plate"
    /\ ~calc.done
    /\ calc' = CalcOutput("plate", calc.input, NormalizePlate(calc.input))
    /\ UNCHANGED <<_token, _permits, _close_session, request_timeout, session,
                   tasks, nOps, logins, closes, fetched, scope>>

\* the "license_plates" entry of a permit
LicensePlatesApplied ==
    /\ calc.fn = "license_plates"
    /\ ~calc.done
    /\ calc' = CalcOutput("license_plates", calc.input, LicensePlates(calc.input))
    /\ UNCHANGED <<_token, _permits, _close_session, request_timeout, session,
                   tasks, nOps, logins, closes, fetched, scope>>

\* the list update() builds from a getbase document
NormalizePermitsApplied ==
    /\ calc.fn = "permits"
    /\ ~calc.done
    /\ CanNormalize(calc.input)
    /\ calc' = CalcOutput("permits", calc.input, NormalizePermits(calc.input))
    /\ UNCHANGED <<_token, _permits, _close_session, request_timeout, session,
                   tasks, nOps, logins, closes, fetched, scope>>

NextCalc ==
    \/ NormalizePlateApplied
    \/ LicensePlatesApplied
    \/ NormalizePermitsApplied

SpecCalc == InitCalc /\ [][NextCalc]_vars

(***************************************************************************)
(* Properties.  The conditions below describe responses by what is on the  *)
(* wire, not by the operators of _request().                               *)
(***************************************************************************)
\* the response has a Content-Type starting with application/json
DeclaresJson(resp) ==
    /\ "Content-Type" \in DOMAIN resp.headers
    /\ resp.headers["Content-Type"] \in {APPLICATION_JSON, APPLICATION_JSON_UTF8}

\* the task's operation is over and the body of its last response was read
BodyWasRead(t) ==
    /\ tasks[t].pc = "done"
    /\ tasks[t].resp.status # 0
    /\ ~(tasks[t].result.kind = "raise"
         /\ tasks[t].result.exc = "ClientPayloadError")

\* the task's operation ended with DVSPortalError(status, payload)
RaisedApiError(t, status, payload) ==
    /\ tasks[t].result.kind = "raise"
    /\ tasks[t].result.exc = "DVSPortalError"
    /\ tasks[t].result.status = status
    /\ tasks[t].result.payload = payload

\* C1: a JSON response with a 2xx status whose parsed body has an
\* ErrorMessage field makes _request() raise DVSPortalError with the status
\* and the whole parsed body; the body is never returned.
ErrorMessageRaises ==
    \A t \in Tasks :
        ( /\ BodyWasRead(t)
          /\ DeclaresJson(tasks[t].resp)
          /\ tasks[t].resp.status \div 100 = 2
          /\ tasks[t].resp.body \in {"err", "err_tok"} )
        => RaisedApiError(t, tasks[t].resp.status, ParseJson(tasks[t].resp.body))

ErrorMessageRaisesWitness ==
    \E t \in Tasks :
        /\ BodyWasRead(t)
        /\ DeclaresJson(tasks[t].resp)
        /\ tasks[t].resp.status = 200
        /\ tasks[t].resp.body = "err_tok"
        /\ RaisedApiError(t, 200, [ErrorMessage |-> "denied", Token |-> TOKEN_ABC])

\* C2: a response whose Content-Type does not start with application/json
\* (or is missing) makes _request() raise DVSPortalError with the status and
\* {message: raw text}, whatever the status; only a response declared as
\* JSON is ever parsed as JSON.
NonJsonRaises ==
    \A t \in Tasks :
        /\ tasks[t].pc = "await_json" => DeclaresJson(tasks[t].resp)
        /\ (BodyWasRead(t) /\ ~DeclaresJson(tasks[t].resp))
           => RaisedApiError(t, tasks[t].resp.status,
                             [message |-> tasks[t].resp.body])

NonJsonRaisesWitness ==
    \E t \in Tasks :
        /\ BodyWasRead(t)
        /\ "Content-Type" \notin DOMAIN tasks[t].resp.headers
        /\ tasks[t].resp.status = 200
        /\ tasks[t].resp.body = "tok_abc"
        /\ RaisedApiError(t, 200, [message |-> "tok_abc"])
        /\ ~_token.set

\* C3: once a login has stored a token, no login request is sent any more
\* and the token stays as it is; a login request is only sent as the first
\* request of an operation and while no token is cached; at most one login
\* succeeds; token() returns the cached token.
TokenIdempotent ==
    /\ [](logins.ok <= 1)
    /\ [][ /\ _token.set => (logins'.sent = logins.sent /\ _token' = _token)
           /\ logins'.sent # logins.sent
                 => (~_token.set /\ \A t \in Tasks : ~Running(t)) ]_vars
    /\ [](\A t \in Tasks :
            (tasks[t].op = "token" /\ tasks[t].pc = "done"
                /\ tasks[t].result.kind = "return")
            => (_token.set /\ tasks[t].result.value = _token.val))

TokenIdempotentWitness ==
    \E t \in Tasks :
        /\ logins.sent = 1
        /\ logins.ok = 1
        /\ nOps >= 2
        /\ tasks[t].op = "token"
        /\ tasks[t].pc = "done"
        /\ tasks[t].req = NoRequest
        /\ tasks[t].result = Return(TOKEN_E)

\* the login request of the task has failed: no response, a response that
\* is not JSON, a 4xx/5xx status or a body with ErrorMessage
LoginFailed(t) ==
    /\ tasks[t].pc = "done"
    /\ tasks[t].req.uri = "login"
    /\ \/ tasks[t].resp.status = 0
       \/ ~DeclaresJson(tasks[t].resp)
       \/ tasks[t].resp.status \in {404, 500}
       \/ tasks[t].resp.body \in {"err", "err_tok"}

\* C4: a failed login ends token() with an error and caches nothing:
\* DVSPortalConnectionError when the request timed out or broke,
\* DVSPortalError with the status when the response was read and rejected;
\* and an operation that needs authentication while no token is cached
\* starts with a login request.
FailedLoginCachesNothing ==
    /\ [](\A t \in Tasks :
            LoginFailed(t) =>
                /\ ~_token.set
                /\ tasks[t].result.kind = "raise"
                /\ tasks[t].resp.status = 0
                      => tasks[t].result.exc = "DVSPortalConnectionError"
                /\ ( /\ BodyWasRead(t)
                     /\ ~DeclaresJson(tasks[t].resp)
                           \/ tasks[t].resp.body \in JsonBodies )
                      => /\ tasks[t].result.exc = "DVSPortalError"
                         /\ tasks[t].result.status = tasks[t].resp.status)
    /\ [][ \A t \in Tasks :
             ( /\ nOps' = nOps + 1
               /\ tasks'[t] # tasks[t]
               /\ tasks'[t].op \in RequestOperations
               /\ ~_token.set
               /\ ~session.closed )
             => /\ tasks'[t].pc = "await_request"
                /\ tasks'[t].req.uri = "login"
                /\ logins'.sent = logins.sent + 1 ]_vars

FailedLoginCachesNothingWitness ==
    \E t \in Tasks :
        /\ logins.sent = 2
        /\ logins.ok = 0
        /\ nOps = 2
        /\ ~_token.set
        /\ tasks[t].pc = "await_request"
        /\ tasks[t].req.uri = "login"

\* C5: the snapshot is the normalization of the getbase response of the
\* most recent successful update() and of nothing else.
SnapshotIsLastResponse ==
    /\ _permits.set <=> fetched # <<>>
    /\ _permits.set =>
          _permits.val = NormalizePermits(ParseJson(fetched[Len(fetched)]))

SnapshotIsLastResponseWitness ==
    /\ Len(fetched) = 2
    /\ fetched[1] = "base_a"
    /\ fetched[2] = "base_b"
    /\ Len(_permits.val) = 1
    /\ _permits.val[1].code = "400"

\* C6 as stated: the session of a client that created it has its close()
\* invoked at most once, however often the client is closed.
SessionClosedOnce ==
    _close_session => session.close_calls <= 1

\* C6 as the code has it: every close() of a client that created its session
\* invokes the session's close() once more, so the session is closed from
\* the first close() on and its close() has been invoked once per close().
SessionClosedPerClose ==
    _close_session =>
        /\ session.close_calls = closes
        /\ session.closed <=> closes >= 1

SessionClosedPerCloseWitness ==
    /\ _close_session
    /\ closes = 2
    /\ session.close_calls = 2
    /\ session.closed
    /\ \E t \in Tasks : tasks[t].op = "__aexit__" /\ tasks[t].pc = "done"

\* C7: a session that was supplied to the client is never closed by it, and
\* the ownership flag never changes.
SuppliedSessionNeverClosed ==
    /\ [](~_close_session => (session.close_calls = 0 /\ ~session.closed))
    /\ [][_close_session' = _close_session]_vars

SuppliedSessionNeverClosedWitness ==
    /\ ~_close_session
    /\ closes = 2
    /\ logins.sent = 1
    /\ session = [closed |-> FALSE, close_calls |-> 0]
    /\ \E t \in Tasks : tasks[t].op = "__aexit__" /\ tasks[t].pc = "done"

\* C8: while _request() waits for the network, for the response or for its
\* body, no more than request_timeout seconds have passed since it started.
RequestBoundedByTimeout ==
    \A t \in Tasks :
        tasks[t].pc \in {"await_request", "await_text", "await_json"}
            => tasks[t].elapsed <= request_timeout

\* C9: permits() sends nothing and changes nothing; it raises when no
\* update() has succeeded, and returns the snapshot of the last successful
\* update() otherwise.
PermitsReadsSnapshot ==
    /\ [](\A t \in Tasks :
            (tasks[t].op = "permits" /\ tasks[t].pc = "done") =>
                /\ tasks[t].req = NoRequest
                /\ fetched = <<>> => tasks[t].result.kind = "raise"
                /\ fetched # <<>> =>
                      /\ tasks[t].result.kind = "return"
                      /\ tasks[t].result.value =
                            NormalizePermits(ParseJson(fetched[Len(fetched)]))
                      /\ tasks[t].result.value = _permits.val)
    /\ [][ \A t \in Tasks :
             (tasks'[t] # tasks[t] /\ tasks'[t].op = "permits")
             => UNCHANGED <<_token, _permits, _close_session, request_timeout,
                            session, logins, closes, fetched>> ]_vars

\* permits() raised after an update() that failed
PermitsReadsSnapshotWitness ==
    \E t \in Tasks :
        /\ tasks[t].op = "permits"
        /\ tasks[t].pc = "done"
        /\ tasks[t].result.kind = "raise"
        /\ logins.sent >= 1
        /\ fetched = <<>>

\* "Token YWJj"
HEADER_ABC == <<84, 111, 107, 101, 110, 32, 89, 87, 74, 106>>
\* "Token w6k="
HEADER_E == <<84, 111, 107, 101, 110, 32, 119, 54, 107, 61>>

\* "Token " + base64 of the UTF-8 bytes of the token, written out
ExpectedAuthorization(tok) ==
    CASE tok = TOKEN_ABC -> HEADER_ABC
      [] tok = TOKEN_E -> HEADER_E

\* C10: a request to login/getbase, reservation/create or reservation/end
\* is only sent while a token from a successful login is cached and carries
\* Authorization = "Token " + base64(token); a login request carries no
\* Authorization header.
RequestsCarryToken ==
    \A t \in Tasks :
        /\ tasks[t].req.uri = "login"
              => "Authorization" \notin DOMAIN tasks[t].req.headers
        /\ tasks[t].req.uri \in {"login/getbase", "reservation/create", "reservation/end"}
              => /\ _token.set
                 /\ logins.ok = 1
                 /\ _token.val = ParseJson(logins.by).Token
                 /\ "Authorization" \in DOMAIN tasks[t].req.headers
                 /\ tasks[t].req.headers["Authorization"] =
                       ExpectedAuthorization(_token.val)

RequestsCarryTokenWitness ==
    \E t \in Tasks :
        /\ tasks[t].pc = "await_request"
        /\ tasks[t].op = "create_reservation"
        /\ tasks[t].req.uri = "reservation/create"
        /\ _token = Some(TOKEN_E)
        /\ tasks[t].req.headers["Authorization"] = HEADER_E

\* an ASCII letter or an ASCII digit
IsAsciiAlnum(c) ==
    \/ c \in 65..90
    \/ c \in 97..122
    \/ c \in 48..57

\* C11: the key of a license plate is the plate with every character outside
\* [A-Za-z0-9] removed and the others kept in order.
PlateKeyIsAsciiAlnum ==
    (calc.fn = "plate" /\ calc.done)
        => calc.output = SelectSeq(calc.input, IsAsciiAlnum)

\* the position before the first record of Permits[i] in the flattened list
MediaOffset(doc, i) ==
    Cardinality(UNION {{<<a, j>> : j \in DOMAIN doc.Permits[a].PermitMedias}
                          : a \in 1..(i - 1)})

\* C18: the snapshot has one permit per entry of Permits[].PermitMedias[],
\* in the server's order, with the record's Code, ZoneCode and TypeID and one
\* reservation per entry of its ActiveReservations, in order.
FlattenedInOrder ==
    (calc.fn = "permits" /\ calc.done) =>
        LET doc == calc.input
            out == calc.output
        IN /\ Len(out) = MediaOffset(doc, Len(doc.Permits) + 1)
           /\ \A i \in DOMAIN doc.Permits :
                 \A j \in DOMAIN doc.Permits[i].PermitMedias :
                    LET m == doc.Permits[i].PermitMedias[j]
                        p == out[MediaOffset(doc, i) + j]
                    IN /\ p.code = m.Code
                       /\ p.zone_code = m.ZoneCode
                       /\ p.type_id = m.TypeID
                       /\ Len(p.reservations) = Len(m.ActiveReservations)
                       /\ \A r \in DOMAIN m.ActiveReservations :
                             /\ p.reservations[r].id = m.ActiveReservations[r].ReservationID
                             /\ p.reservations[r].valid_from = m.ActiveReservations[r].ValidFrom
                             /\ p.reservations[r].valid_until = m.ActiveReservations[r].ValidUntil
                             /\ p.reservations[r].license_plate =
                                   m.ActiveReservations[r].LicensePlate.Value

FlattenedInOrderWitness ==
    /\ calc.fn = "permits"
    /\ calc.done
    /\ Len(calc.input.Permits) = 2
    /\ Len(calc.input.Permits[1].PermitMedias) = 2
    /\ Len(calc.input.Permits[2].PermitMedias) = 1
    /\ calc.input.Permits[2].PermitMedias[1].Code = "300"
    /\ Len(calc.output) = 3
    /\ calc.output[3].code = "300"
    /\ Len(calc.output[3].reservations) = 1

\* the key of the plates the entries are drawn from, written out
PlateKey(value) ==
    CASE value = PLATE_DASHED -> PLATE_PLAIN
      [] value = PLATE_PLAIN -> PLATE_PLAIN
      [] value = PLATE_OTHER -> <<88, 89, 57, 57>>

\* C20: license_plates has one entry per key; entries of LicensePlates with
\* the same key leave the name of the last of them; the mapping is never
\* larger than the list.
LastPlateNameWins ==
    (calc.fn = "license_plates" /\ calc.done) =>
        LET entries == calc.input
            out == calc.output
        IN /\ DOMAIN out = {PlateKey(entries[i].Value) : i \in DOMAIN entries}
           /\ Cardinality(DOMAIN out) <= Len(entries)
           /\ \A i \in DOMAIN entries :
                 (\A j \in DOMAIN entries :
                     j > i => PlateKey(entries[j].Value) # PlateKey(entries[i].Value))
                 => out[PlateKey(entries[i].Value)] = entries[i].Name

LastPlateNameWinsWitness ==
    /\ calc.fn = "license_plates"
    /\ calc.done
    /\ calc.input = <<[Value |-> PLATE_DASHED, Name |-> "first"],
                      [Value |-> PLATE_PLAIN, Name |-> "second"]>>
    /\ DOMAIN calc.output = {PLATE_PLAIN}
    /\ calc.output[PLATE_PLAIN] = "second"

\* the response the task holds is one _request() returns: declared as JSON,
\* a JSON document, no 4xx/5xx status, no ErrorMessage
IsSuccess(resp) ==
    /\ DeclaresJson(resp)
    /\ resp.status \in {200, 201, 302}
    /\ resp.body \in JsonBodies \ {"err", "err_tok"}

\* C12: an operation sends at most one login request and at most one request
\* of its own, each at most once, and sends a further request only after the
\* one before returned a success; a failed request ends the operation.
NoRetries ==
    /\ [](\A t \in Tasks :
            /\ Len(tasks[t].sent) <= 2
            /\ \A i, j \in DOMAIN tasks[t].sent :
                  i # j => tasks[t].sent[i] # tasks[t].sent[j]
            /\ \A i \in DOMAIN tasks[t].sent :
                  tasks[t].sent[i] # "login" => i = Len(tasks[t].sent))
    /\ [][ \A t \in Tasks :
             (Running(t) /\ tasks'[t].sent # tasks[t].sent)
             => (tasks[t].pc = "await_json" /\ IsSuccess(tasks[t].resp)) ]_vars
    /\ [][ \A t \in Tasks :
             (tasks[t].pc = "await_request" /\ tasks'[t].pc = "done")
             => /\ tasks'[t].result.kind = "raise"
                /\ tasks'[t].sent = tasks[t].sent ]_vars

\* update() whose login was rejected: no getbase request
NoRetriesWitness ==
    \E t \in Tasks :
        /\ tasks[t].op = "update"
        /\ tasks[t].pc = "done"
        /\ tasks[t].sent = <<"login">>
        /\ RaisedApiError(t, 404, [Token |-> TOKEN_ABC])

\* _request() has returned the document to the operation of the task
RequestReturned(t) ==
    /\ BodyWasRead(t)
    /\ ~(tasks[t].result.kind = "raise"
         /\ tasks[t].result.exc \in {"DVSPortalError", "JSONDecodeError"})

\* C14: of the responses whose body was read and is a JSON document,
\* _request() returns exactly those declared as JSON with a status outside
\* 4xx/5xx and no ErrorMessage; a JSON response with a 4xx/5xx status raises
\* DVSPortalError with the status and the parsed document; a response not
\* declared as JSON raises with {message: text} whatever its status.
ClassificationTotal ==
    \A t \in Tasks :
        (BodyWasRead(t) /\ tasks[t].resp.body \in JsonBodies) =>
            LET resp == tasks[t].resp IN
            /\ RequestReturned(t) <=> IsSuccess(resp)
            /\ (RequestReturned(t)
                  /\ tasks[t].req.uri \in {"reservation/create", "reservation/end"})
               => tasks[t].result = Return(ParseJson(resp.body))
            /\ (DeclaresJson(resp) /\ resp.status \in {404, 500})
               => RaisedApiError(t, resp.status, ParseJson(resp.body))
            /\ (~DeclaresJson(resp) /\ resp.status \in {404, 500})
               => RaisedApiError(t, resp.status, [message |-> resp.body])

ClassificationTotalWitness ==
    \E t \in Tasks :
        /\ BodyWasRead(t)
        /\ DeclaresJson(tasks[t].resp)
        /\ tasks[t].resp.status = 500
        /\ tasks[t].resp.body = "reservation"
        /\ tasks[t].op = "end_reservation"
        /\ RaisedApiError(t, 500, [ReservationID |-> 7])

\* C16: with one caller, the token a login has stored stays as it is: it is
\* never changed and never dropped, and no login request follows, whatever
\* the later requests and close() calls do.
TokenWriteOnce ==
    /\ [][_token.set => (_token' = _token /\ logins'.sent = logins.sent)]_vars
    /\ [](logins.ok >= 1 => (_token.set /\ _token.val = ParseJson(logins.by).Token))

\* the token is still cached after a getbase request was answered with 404
TokenWriteOnceWitness ==
    \E t \in Tasks :
        /\ _token = Some(TOKEN_ABC)
        /\ logins.sent = 1
        /\ nOps >= 2
        /\ tasks[t].pc = "done"
        /\ tasks[t].req.uri = "login/getbase"
        /\ tasks[t].sent = <<"login/getbase">>
        /\ RaisedApiError(t, 404, [ErrorMessage |-> "denied"])

\* C17: no step of create_reservation() or end_reservation() changes the
\* snapshot, whether the operation succeeds or fails, and what they return
\* is the parsed document of the response.
ReservationsLeaveSnapshot ==
    /\ [][ \A t \in Tasks :
             ( /\ tasks'[t] # tasks[t]
               /\ tasks'[t].op \in {"create_reservation", "end_reservation"} )
             => (_permits' = _permits /\ fetched' = fetched) ]_vars
    /\ [](\A t \in Tasks :
            ( /\ tasks[t].op \in {"create_reservation", "end_reservation"}
              /\ tasks[t].pc = "done"
              /\ tasks[t].result.kind = "return" )
            => /\ tasks[t].resp.status # 0
               /\ tasks[t].result.value = ParseJson(tasks[t].resp.body))

ReservationsLeaveSnapshotWitness ==
    \E t \in Tasks :
        /\ fetched = <<"base_a">>
        /\ _permits = Some(NormalizePermits(BaseA))
        /\ tasks[t].op = "create_reservation"
        /\ tasks[t].pc = "done"
        /\ tasks[t].result = Return([ReservationID |-> 7])

\* C13: nothing guards the login: a task that needs the token while none is
\* cached sends a login request even if another task's login is in flight,
\* and the cached token is always the one of the login response processed
\* last.
LastLoginWins ==
    /\ [](_token.set =>
            (logins.by # "" /\ _token.val = ParseJson(logins.by).Token))
    /\ [][ \A t \in Tasks :
             ( /\ nOps' = nOps + 1
               /\ tasks'[t] # tasks[t]
               /\ ~_token.set )
             => /\ tasks'[t].pc = "await_request"
                /\ tasks'[t].req.uri = "login"
                /\ logins'.sent = logins.sent + 1 ]_vars

\* two logins were sent and both succeeded; the first task got "abc", the
\* cache now holds the token of the second
LastLoginWinsWitness ==
    /\ logins = [sent |-> 2, ok |-> 2, by |-> "tok_e"]
    /\ nOps = 2
    /\ tasks[1].op = "token"
    /\ tasks[1].pc = "done"
    /\ tasks[1].result = Return(TOKEN_ABC)
    /\ tasks[2].op = "token"
    /\ tasks[2].pc = "done"
    /\ tasks[2].result = Return(TOKEN_E)
    /\ _token = Some(TOKEN_E)

\* C15: the snapshot is absent or the normalization of one whole getbase
\* response, also between the steps of update() calls that run at once; and
\* only the last step of an update() that succeeds changes it, so an
\* update() that fails leaves it as it was.
SnapshotAtomic ==
    /\ [](_permits.set =>
            /\ fetched # <<>>
            /\ _permits.val = NormalizePermits(ParseJson(fetched[Len(fetched)]))
            /\ fetched[Len(fetched)] \in {"base_a", "base_b"})
    /\ [][ _permits' # _permits =>
             \E t \in Tasks :
                /\ tasks[t].op = "update"
                /\ tasks[t].pc = "await_json"
                /\ tasks[t].req.uri = "login/getbase"
                /\ IsSuccess(tasks[t].resp)
                /\ tasks[t].resp.body \in {"base_a", "base_b"}
                /\ tasks'[t].pc = "done"
                /\ tasks'[t].result = Return("None") ]_vars

\* two update() calls ran at once, the second joining after the login of
\* the first; the first stored its response, the second failed on a record
\* without ZoneCode, and the snapshot is the one of the first
SnapshotAtomicWitness ==
    /\ nOps = 2
    /\ fetched = <<"base_a">>
    /\ _permits = Some(NormalizePermits(BaseA))
    /\ tasks[1].op = "update"
    /\ tasks[1].pc = "done"
    /\ tasks[1].sent = <<"login", "login/getbase">>
    /\ tasks[1].result = Return("None")
    /\ tasks[2].op = "update"
    /\ tasks[2].pc = "done"
    /\ tasks[2].sent = <<"login/getbase">>
    /\ tasks[2].result.kind = "raise"
    /\ tasks[2].result.exc = "KeyError"
    /\ tasks[2].resp.body = "base_bad"

\* C19: once the "async with" block is left, by the end of its body or by an
\* exception of an operation in it, a session the client created is closed,
\* and the exception of the body is the one the caller gets.
ScopedUseReleases ==
    scope.state = "left" =>
        /\ closes >= 1
        /\ _close_session => (session.closed /\ session.close_calls >= 1)
        /\ scope.exc = IF tasks[MainTask].pc = "done"
                          /\ tasks[MainTask].result.kind = "raise"
                       THEN tasks[MainTask].result
                       ELSE NoResult

\* update() in the body logged in and then got a 404 for getbase: the scope
\* is left with the DVSPortalError, the session is closed
ScopedUseReleasesWitness ==
    /\ scope.state = "left"
    /\ _close_session
    /\ session = [closed |-> TRUE, close_calls |-> 1]
    /\ _token.set
    /\ tasks[MainTask].op = "update"
    /\ tasks[MainTask].sent = <<"login", "login/getbase">>
    /\ scope.exc.kind = "raise"
    /\ scope.exc.exc = "DVSPortalError"
    /\ scope.exc.status = 404

====
